---- MODULE Spec2Model ----
(***************************************************************************)
(* The Python client layer of sparknlp: the resource downloader with its   *)
(* progress thread (pretrained.py), the bridge wrappers it constructs      *)
(* (internal/__init__.py), PretrainedPipeline's dispatch, the               *)
(* XlnetEmbeddings facade (xlnet_embeddings.py), and the RNNLM trainer's   *)
(* learning rate, batch_train and predict (spellchecker/rnn_lm.py).        *)
(*                                                                         *)
(* One calling thread invokes public operations one after the other; each  *)
(* download call starts its own progress thread, which runs concurrently.  *)
(* Python values are written as strings and tuples of strings: None is the *)
(* string "None", a remote handle is its name, a target is a tuple whose   *)
(* first element is its exact type.                                        *)
(***************************************************************************)
EXTENDS Integers, Sequences, FiniteSets, TLC

\* ------------------------------------------------------------------ bounds
\* Download calls (hence progress threads) per behaviour.
MaxCalls == 1
\* Animated frames one progress thread writes before it only waits to poll.
MaxFrames == 3
\* The same, for a progress thread that runs on its own (no download call
\* around it), where the shape of the later frames is looked at.
MaxProgressFrames == 12

\* ------------------------------------------------------------------ inputs
None == "None"
\* An argument the caller did not pass (the parameter's default applies).
Omitted == "<omitted>"
Names == {"explain_document_ml"}
Langs == {"fr"}
RemoteLocs == {"public/models"}
\* Opaque handles the remote side returns, and errors it raises.
Handles == {"h1", "h2"}
RemoteErrors == {"Py4JJavaError", "Py4JNetworkError"}
TypeError == "TypeError"
\* What a remote or delegate call can do: return a handle or raise.
Outcomes == [kind : {"return"}, val : Handles] \cup [kind : {"raise"}, val : RemoteErrors]
\* What a delegate (the model, the light pipeline) can do with a call.
DelegateOutcomes == [kind : {"return"}, val : {"annotations"}] \cup [kind : {"raise"}, val : {"Py4JJavaError"}]
LightOutcomes == [kind : {"return"}, val : {"light1"}] \cup [kind : {"raise"}, val : {"Py4JJavaError"}]

\* The class object XlnetEmbeddings and its class attribute `name`.
XlnetEmbeddingsClass == "sparknlp.annotator.embeddings.xlnet_embeddings.XlnetEmbeddings"
ReaderName(reader) == IF reader = XlnetEmbeddingsClass THEN "XlnetEmbeddings" ELSE "?"
Readers == {XlnetEmbeddingsClass}

VARIABLES
    pc,        \* the calling thread's position
    entry,     \* the public operation invoked: [op, args]
    dl,        \* the invocation's download call: [op, args, tid, started, outcome]
    calls,     \* remote and delegate calls issued by the current invocation, in order
    result,    \* what the current invocation gave its caller: [kind, val]
    j_obj,     \* the handle the remote download call returned
    stop,      \* stop_threads of each download call (read by its thread's lambda)
    threads,   \* each progress thread: [pc, done, dot, polls]
    out,       \* sys.stdout: the writes of the current invocation and its thread
    ncalls,    \* download calls made so far
    pipeline,  \* the PretrainedPipeline object: [exists, model, light_model]
    emb,       \* the XlnetEmbeddings object: [exists, classname, java_model, defaults,
               \* params], and `targets`, the parameters its setters were called for
    rnn        \* the RNNLM object, its session and the call of batch_train or predict

vars == <<pc, entry, dl, calls, result, j_obj, stop, threads, out, ncalls, pipeline, emb, rnn>>

Tids == 1..MaxCalls

NoResult == [kind |-> "none", val |-> None]
Returned(v) == [kind |-> "return", val |-> v]
Raised(e) == [kind |-> "raise", val |-> e]
NoDownload == [op |-> "none", args |-> <<>>, tid |-> 0, started |-> 0, outcome |-> NoResult]

\* ---------------------------------------------------------- bridge wrappers
\* A wrapper's constructor applied to the positional arguments `args`: Python
\* raises TypeError unless their number is the number of parameters __init__
\* declares (none of these has a default); otherwise the wrapper holds the
\* fully-qualified remote name and the arguments forwarded to it.
Wrapped(target, args) == [ok |-> TRUE, target |-> target, args |-> args]
ArityError == [ok |-> FALSE, target |-> TypeError, args |-> <<>>]

_DownloadModel(args) ==
    IF Len(args) # 5 THEN ArityError
    ELSE Wrapped("com.johnsnowlabs.nlp.pretrained." \o args[5] \o ".downloadModel",
                 <<args[1], args[2], args[3], args[4]>>)

_DownloadPipeline(args) ==
    IF Len(args) # 3 THEN ArityError
    ELSE Wrapped("com.johnsnowlabs.nlp.pretrained.PythonResourceDownloader.downloadPipeline",
                 <<args[1], args[2], args[3]>>)

_ClearCache(args) ==
    IF Len(args) # 3 THEN ArityError
    ELSE Wrapped("com.johnsnowlabs.nlp.pretrained.PythonResourceDownloader.clearCache",
                 <<args[1], args[2], args[3]>>)

_ShowPublicModels(args) ==
    IF Len(args) # 3 THEN ArityError
    ELSE Wrapped("com.johnsnowlabs.nlp.pretrained.PythonResourceDownloader.showPublicModels",
                 <<args[1], args[2], args[3]>>)

_ShowPublicPipelines(args) ==
    IF Len(args) # 2 THEN ArityError
    ELSE Wrapped("com.johnsnowlabs.nlp.pretrained.PythonResourceDownloader.showPublicPipelines",
                 <<args[1], args[2]>>)

_ShowUnCategorizedResources(args) ==
    IF Len(args) # 0 THEN ArityError
    ELSE Wrapped("com.johnsnowlabs.nlp.pretrained.PythonResourceDownloader.showUnCategorizedResources",
                 <<>>)

\* One entry of `calls`: the remote name, the arguments, how it ended, and
\* the state of the invocation's progress thread when it was issued.
Call(target, args, status, val, thr) ==
    [target |-> target, args |-> args, status |-> status, val |-> val, thr |-> thr]

\* X(...).apply(): the remote invocation the wrapper stands for, ended by
\* `o` (a handle returned, or an error raised on the remote side).
Apply(w, o) ==
    Call(w.target, w.args, IF o.kind = "return" THEN "returned" ELSE "raised", o.val, "none")

\* ------------------------------------------------------------ progress thread
Max(a, b) == IF a >= b THEN a ELSE b
NoThread == [pc |-> "unstarted", done |-> 0, dot |-> 0, polls |-> 0]
\* A write to stdout: who wrote (0: the calling thread), what, and a frame's shape.
Write(src, kind, filled, dots) == [src |-> src, kind |-> kind, filled |-> filled, dots |-> dots]
\* stdout after thread t wrote w: `out` follows the current invocation's output
\* only, so it leaves out what the thread of an earlier call still writes.
Written(t, w) == IF t = dl.tid THEN Append(out, w) ELSE out

\* Variant: the dots are not kept at two or more.
printProgress_write_nofloor(t) ==
    /\ threads[t].pc = "write"
    /\ out' = Written(t, Write(t, "frame", threads[t].done, threads[t].dot))
    /\ threads' = [threads EXCEPT ![t].pc = "sleep"]
    /\ UNCHANGED <<pc, entry, dl, calls, result, j_obj, stop, ncalls, pipeline, emb, rnn>>

\* printProgress, lines 15-16: one animated frame.
printProgress_write(t) ==
    /\ threads[t].pc = "write"
    /\ out' = Written(t, Write(t, "frame", threads[t].done, Max(2, threads[t].dot)))
    /\ threads' = [threads EXCEPT ![t].pc = "sleep"]
    /\ UNCHANGED <<pc, entry, dl, calls, result, j_obj, stop, ncalls, pipeline, emb, rnn>>

\* lines 17-19: the sleep, then the two counters.
printProgress_sleep(t) ==
    /\ threads[t].pc = "sleep"
    /\ threads' = [threads EXCEPT ![t].pc = "poll",
                                  ![t].done = threads[t].done + 1,
                                  ![t].dot = threads[t].dot - 1]
    /\ UNCHANGED <<pc, entry, dl, calls, result, j_obj, stop, out, ncalls, pipeline, emb, rnn>>

\* The frames a thread writes before it only waits to poll.
FrameBound == IF pc = "direct" THEN MaxProgressFrames ELSE MaxFrames

\* Variant: the loop gives up after its second frame, whatever the flag says.
printProgress_poll_givesup(t) ==
    /\ threads[t].pc = "poll"
    /\ stop[t] \/ threads[t].done <= FrameBound
    /\ threads' = [threads EXCEPT ![t].pc = IF stop[t] \/ threads[t].done > 2
                                            THEN "final" ELSE "write",
                                  ![t].polls = threads[t].polls + 1]
    /\ UNCHANGED <<pc, entry, dl, calls, result, j_obj, stop, out, ncalls, pipeline, emb, rnn>>

\* line 20: stop() reads the caller's stop_threads. A thread that has written
\* FrameBound frames and reads False is not scheduled again until the flag is set.
printProgress_poll(t) ==
    /\ threads[t].pc = "poll"
    /\ stop[t] \/ threads[t].done <= FrameBound
    /\ threads' = [threads EXCEPT ![t].pc = IF stop[t] THEN "final" ELSE "write",
                                  ![t].polls = threads[t].polls + 1]
    /\ UNCHANGED <<pc, entry, dl, calls, result, j_obj, stop, out, ncalls, pipeline, emb, rnn>>

\* lines 21-23: the final, all-filled frame.
printProgress_final(t) ==
    /\ threads[t].pc = "final"
    /\ out' = Written(t, Write(t, "final", threads[t].done + Max(2, threads[t].dot), 0))
    /\ threads' = [threads EXCEPT ![t].pc = "newline"]
    /\ UNCHANGED <<pc, entry, dl, calls, result, j_obj, stop, ncalls, pipeline, emb, rnn>>

\* lines 25-26: the newline, and the thread ends.
printProgress_newline(t) ==
    /\ threads[t].pc = "newline"
    /\ out' = Written(t, Write(t, "newline", 0, 0))
    /\ threads' = [threads EXCEPT ![t].pc = "exited"]
    /\ UNCHANGED <<pc, entry, dl, calls, result, j_obj, stop, ncalls, pipeline, emb, rnn>>

printProgress(t) ==
    \/ printProgress_write(t)
    \/ printProgress_sleep(t)
    \/ printProgress_poll(t)
    \/ printProgress_final(t)
    \/ printProgress_newline(t)

\* printProgress run on its own: a thread started with target=printProgress
\* and a flag that whoever started it sets at a time of their choosing
\* (lines 12-13: done = 1, dot = 7).
printProgress_direct ==
    /\ pc = "idle"
    /\ ncalls < MaxCalls
    /\ ncalls' = ncalls + 1
    /\ entry' = [op |-> "printProgress", args |-> <<>>]
    /\ dl' = [op |-> "none", args |-> <<>>, tid |-> ncalls + 1, started |-> 1,
              outcome |-> [kind |-> "none", val |-> None]]
    /\ stop' = [stop EXCEPT ![ncalls + 1] = FALSE]
    /\ threads' = [threads EXCEPT ![ncalls + 1] =
                       [pc |-> "write", done |-> 1, dot |-> 7, polls |-> 0]]
    /\ pc' = "direct"
    /\ UNCHANGED <<calls, result, j_obj, out, pipeline, emb, rnn>>

\* The flag of a thread run on its own becomes true.
StopRequested ==
    /\ pc = "direct"
    /\ ~stop[dl.tid]
    /\ stop' = [stop EXCEPT ![dl.tid] = TRUE]
    /\ UNCHANGED <<pc, entry, dl, calls, result, j_obj, threads, out, ncalls, pipeline, emb, rnn>>

\* --------------------------------------------------------------- the caller
\* The caller is between two invocations.
Idle == pc = "idle"

\* A thread that has returned: its locals are gone.
Ended == [pc |-> "exited", done |-> 0, dot |-> 0, polls |-> 0]

\* The invocation is over (pc = "done" keeps what it did); the caller goes on
\* to its next statement.
Continue ==
    /\ pc = "done"
    /\ pc' = "idle"
    /\ entry' = [op |-> "none", args |-> <<>>]
    /\ dl' = NoDownload
    /\ calls' = <<>>
    /\ result' = NoResult
    /\ j_obj' = None
    /\ out' = <<>>
    /\ threads' = [t \in Tids |-> IF threads[t].pc = "exited" THEN Ended ELSE threads[t]]
    /\ UNCHANGED <<stop, ncalls, pipeline, emb, rnn>>

\* A call of a download operation begins: its own arguments and thread id.
Begin(op, args, dlop, dlargs) ==
    /\ Idle
    /\ ncalls < MaxCalls
    /\ ncalls' = ncalls + 1
    /\ entry' = [op |-> op, args |-> args]
    /\ dl' = [op |-> dlop, args |-> dlargs, tid |-> ncalls + 1, started |-> 0,
              outcome |-> NoResult]
    /\ calls' = <<>>
    /\ result' = NoResult
    /\ pc' = "print_started"
    /\ UNCHANGED <<j_obj, stop, threads, out, pipeline, emb, rnn>>

\* ResourceDownloader.downloadModel(reader, name, language, remote_loc=None)
downloadModel(reader, name, language, remote_loc) ==
    Begin("ResourceDownloader.downloadModel", <<reader, name, language, remote_loc>>,
          "downloadModel",
          <<reader, name, language, IF remote_loc = Omitted THEN None ELSE remote_loc>>)

\* ResourceDownloader.downloadPipeline(name, language, remote_loc=None)
downloadPipeline(name, language, remote_loc) ==
    Begin("ResourceDownloader.downloadPipeline", <<name, language, remote_loc>>,
          "downloadPipeline",
          <<name, language, IF remote_loc = Omitted THEN None ELSE remote_loc>>)

\* Variant: the flag starts out true.
PrintStarted_flagset ==
    /\ pc = "print_started"
    /\ out' = Append(out, Write(0, "started", 0, 0))
    /\ stop' = [stop EXCEPT ![dl.tid] = TRUE]
    /\ pc' = "start_thread"
    /\ UNCHANGED <<entry, dl, calls, result, j_obj, threads, ncalls, pipeline, emb, rnn>>

\* lines 33-34 and 45-46: the "download started" line, stop_threads = False.
PrintStarted ==
    /\ pc = "print_started"
    /\ out' = Append(out, Write(0, "started", 0, 0))
    /\ stop' = [stop EXCEPT ![dl.tid] = FALSE]
    /\ pc' = "start_thread"
    /\ UNCHANGED <<entry, dl, calls, result, j_obj, threads, ncalls, pipeline, emb, rnn>>

\* lines 35-36 and 47-48: the thread is created and started (done = 1, dot = 7).
StartThread ==
    /\ pc = "start_thread"
    /\ threads' = [threads EXCEPT ![dl.tid] = [pc |-> "write", done |-> 1, dot |-> 7, polls |-> 0]]
    /\ dl' = [dl EXCEPT !.started = dl.started + 1]
    /\ pc' = "construct"
    /\ UNCHANGED <<entry, calls, result, j_obj, stop, out, ncalls, pipeline, emb, rnn>>

\* The wrapper each download operation constructs, with the arguments it passes.
DownloadWrapper(d) ==
    IF d.op = "downloadModel"
    THEN _DownloadModel(<<ReaderName(d.args[1]), d.args[2], d.args[3], d.args[4]>>)
    ELSE _DownloadPipeline(<<d.args[1], d.args[2], d.args[3]>>)

\* An exception leaves the download operation and every frame above it.
Propagate(e) ==
    /\ dl' = [dl EXCEPT !.outcome = Raised(e)]
    /\ result' = Raised(e)
    /\ pc' = "done"

\* lines 37 and 49: the wrapper is constructed; a TypeError ends the call
\* here, otherwise the remote call is issued and the caller blocks in it.
IssueRemote ==
    /\ pc = "construct"
    /\ LET w == DownloadWrapper(dl) IN
         IF w.ok
         THEN /\ calls' = Append(calls, Call(w.target, w.args, "pending", None,
                                              threads[dl.tid].pc))
              /\ pc' = "remote"
              /\ UNCHANGED <<dl, result>>
         ELSE /\ Propagate(TypeError)
              /\ UNCHANGED calls
    /\ UNCHANGED <<entry, j_obj, stop, threads, out, ncalls, pipeline, emb, rnn>>

\* The remote side returns the handle h.
RemoteReturns(h) ==
    /\ pc = "remote"
    /\ calls' = [calls EXCEPT ![Len(calls)].status = "returned", ![Len(calls)].val = h]
    /\ j_obj' = h
    /\ pc' = IF dl.op = "downloadPipeline" THEN "wrap" ELSE "set_stop"
    /\ UNCHANGED <<entry, dl, result, stop, threads, out, ncalls, pipeline, emb, rnn>>

\* Variant: the download is tried again when the remote call fails.
OnRemoteError_retry(e) ==
    /\ calls' = Append([calls EXCEPT ![Len(calls)].status = "raised", ![Len(calls)].val = e],
                       Call(calls[Len(calls)].target, calls[Len(calls)].args, "pending", None,
                            threads[dl.tid].pc))
    /\ pc' = "remote"
    /\ UNCHANGED <<dl, result>>

\* Variant: the remote error is caught and a generic one raised in its place.
OnRemoteError_wrapped(e) ==
    /\ Propagate("Exception")
    /\ calls' = [calls EXCEPT ![Len(calls)].status = "raised", ![Len(calls)].val = e]

\* What the caller does with an error e of the remote call: nothing catches it.
OnRemoteError(e) ==
    /\ Propagate(e)
    /\ calls' = [calls EXCEPT ![Len(calls)].status = "raised", ![Len(calls)].val = e]

\* The remote side raises e.
RemoteRaises(e) ==
    /\ pc = "remote"
    /\ OnRemoteError(e)
    /\ UNCHANGED <<entry, j_obj, stop, threads, out, ncalls, pipeline, emb, rnn>>

\* line 50 (downloadPipeline only): jmodel = JavaModel(j_obj).
Wrap ==
    /\ pc = "wrap"
    /\ pc' = "set_stop"
    /\ UNCHANGED <<entry, dl, calls, result, j_obj, stop, threads, out, ncalls, pipeline, emb, rnn>>

\* Variant: the flag is left as it is.
SetStop_forgotten ==
    /\ pc = "set_stop"
    /\ pc' = "join"
    /\ UNCHANGED <<entry, dl, calls, result, j_obj, stop, threads, out, ncalls, pipeline, emb, rnn>>

\* lines 38 and 51: stop_threads = True.
SetStop ==
    /\ pc = "set_stop"
    /\ stop' = [stop EXCEPT ![dl.tid] = TRUE]
    /\ pc' = "join"
    /\ UNCHANGED <<entry, dl, calls, result, j_obj, threads, out, ncalls, pipeline, emb, rnn>>

\* Variant: the caller does not wait for the thread.
Join_nowait ==
    /\ pc = "join"
    /\ pc' = "print_done"
    /\ UNCHANGED <<entry, dl, calls, result, j_obj, stop, threads, out, ncalls, pipeline, emb, rnn>>

\* lines 39 and 52: t1.join() returns once the thread has ended.
Join ==
    /\ pc = "join"
    /\ threads[dl.tid].pc = "exited"
    /\ pc' = "print_done"
    /\ UNCHANGED <<entry, dl, calls, result, j_obj, stop, threads, out, ncalls, pipeline, emb, rnn>>

\* lines 40 and 53: print("Download done").
PrintDone ==
    /\ pc = "print_done"
    /\ out' = Append(out, Write(0, "done", 0, 0))
    /\ pc' = "return"
    /\ UNCHANGED <<entry, dl, calls, result, j_obj, stop, threads, ncalls, pipeline, emb, rnn>>

\* ----------------------------------------------------------- XlnetEmbeddings
\* Variant: the defaults of another annotator.
XlnetEmbeddings_init_otherdefaults(classname, java_model) ==
    [exists |-> TRUE, classname |-> classname, java_model |-> java_model,
     defaults |-> ("batchSize" :> 32) @@ ("dimension" :> 768)
                  @@ ("maxSentenceLength" :> 128) @@ ("caseSensitive" :> FALSE),
     params |-> <<>>, targets |-> {}]

\* XlnetEmbeddings.__init__ (keyword-only classname, java_model): the wrapped
\* handle, the defaults of _setDefault, and no parameter set yet.
XlnetEmbeddings_init(classname, java_model) ==
    [exists |-> TRUE, classname |-> classname, java_model |-> java_model,
     defaults |-> ("batchSize" :> 8) @@ ("dimension" :> 768)
                  @@ ("maxSentenceLength" :> 128) @@ ("caseSensitive" :> TRUE),
     params |-> <<>>, targets |-> {}]

NoEmbeddings ==
    [exists |-> FALSE, classname |-> None, java_model |-> None, defaults |-> <<>>,
     params |-> <<>>, targets |-> {}]

\* lines 41 and 54: the value the download operation returns, and, for
\* PretrainedPipeline.__init__, line 78: self.model takes it.
ReturnValue(d, h) ==
    IF d.op = "downloadModel" THEN <<d.args[1], None, h>> ELSE <<"JavaModel", h>>

Return ==
    /\ pc = "return"
    /\ dl' = [dl EXCEPT !.outcome = Returned(ReturnValue(dl, j_obj))]
    /\ emb' = IF dl.op = "downloadModel" THEN XlnetEmbeddings_init(None, j_obj) ELSE emb
    /\ IF entry.op = "PretrainedPipeline.__init__"
       THEN pc' = "light_model" /\ UNCHANGED result
       ELSE pc' = "done" /\ result' = Returned(ReturnValue(dl, j_obj))
    /\ UNCHANGED <<entry, calls, j_obj, stop, threads, out, ncalls, pipeline, rnn>>

\* XlnetEmbeddings.pretrained(name="xlnet_base_cased", lang="en", remote_loc=None):
\* the arguments of its call ResourceDownloader.downloadModel(XlnetEmbeddings, ...).
Default(arg, dflt) == IF arg = Omitted THEN dflt ELSE arg

\* Variant: name and lang change places in the call.
pretrained_args_swapped(name, lang, remote_loc) ==
    <<XlnetEmbeddingsClass, Default(lang, "en"), Default(name, "xlnet_base_cased"),
      Default(remote_loc, None)>>

pretrained_args(name, lang, remote_loc) ==
    <<XlnetEmbeddingsClass, Default(name, "xlnet_base_cased"), Default(lang, "en"),
      Default(remote_loc, None)>>

pretrained(name, lang, remote_loc) ==
    Begin("XlnetEmbeddings.pretrained", <<name, lang, remote_loc>>,
          "downloadModel", pretrained_args(name, lang, remote_loc))

\* The user constructs XlnetEmbeddings() with the default classname.
NewXlnetEmbeddings ==
    /\ Idle
    /\ entry' = [op |-> "XlnetEmbeddings.__init__", args |-> <<>>]
    /\ emb' = XlnetEmbeddings_init("com.johnsnowlabs.nlp.embeddings.XlnetEmbeddings", None)
    /\ dl' = NoDownload
    /\ calls' = <<>>
    /\ result' = Returned("self")
    /\ pc' = "done"
    /\ UNCHANGED <<j_obj, stop, threads, out, ncalls, pipeline, rnn>>

\* Python values handed to a setter: a tag for the type, then the value.
PyInt(n) == <<"int", n>>
PyStr(x) == <<"str", x>>
PyList(xs) == <<"list", xs>>
SentenceLengths == {PyInt(64), PyInt(512), PyStr("128")}
ProtoBytes == {PyList(<<>>), PyList(<<8, 1>>), PyInt(7)}

\* self._set(param=value): the parameter's type converter (toInt takes an
\* int, toListInt a list of ints; anything else raises TypeError), then the
\* converted value is stored in the parameter map; defaults are not touched.
_set(e, param, accepts, value) ==
    IF value[1] = accepts
    THEN [emb |-> [e EXCEPT !.params = (param :> value[2]) @@ e.params],
          result |-> Returned("self")]
    ELSE [emb |-> e, result |-> Raised(TypeError)]

Setter(op, param, value, r) ==
    /\ Idle
    /\ emb.exists
    /\ entry' = [op |-> op, args |-> <<value>>]
    /\ emb' = [r.emb EXCEPT !.targets = emb.targets \cup {param}]
    /\ result' = r.result
    /\ dl' = NoDownload
    /\ calls' = <<>>
    /\ pc' = "done"
    /\ UNCHANGED <<j_obj, stop, threads, out, ncalls, pipeline, rnn>>

setConfigProtoBytes(b) ==
    Setter("XlnetEmbeddings.setConfigProtoBytes", "configProtoBytes", b,
           _set(emb, "configProtoBytes", "list", b))

setMaxSentenceLength(value) ==
    Setter("XlnetEmbeddings.setMaxSentenceLength", "maxSentenceLength", value,
           _set(emb, "maxSentenceLength", "int", value))

\* Params.getOrDefault: the set value, else the default.
getOrDefault(e, param) ==
    IF param \in DOMAIN e.params THEN e.params[param] ELSE e.defaults[param]

\* ------------------------------------------- ResourceDownloader, one-step calls
\* An operation that runs to completion on the calling thread: the calls it
\* made and what it gave its caller.
Complete(op, args, cs, res) ==
    /\ Idle
    /\ entry' = [op |-> op, args |-> args]
    /\ dl' = NoDownload
    /\ calls' = cs
    /\ result' = res
    /\ pc' = "done"
    /\ UNCHANGED <<j_obj, stop, threads, ncalls, emb, rnn>>

\* W(...).apply() as a statement whose value is dropped: the calls made.
ApplyCalls(w, o) == IF w.ok THEN <<Apply(w, o)>> ELSE <<>>
\* ... and how the statement ends: the TypeError of the constructor, the
\* remote error, or normally (the operation then returns None).
ApplyResult(w, o) ==
    IF ~w.ok THEN Raised(TypeError)
    ELSE IF o.kind = "raise" THEN Raised(o.val) ELSE Returned(None)

\* ResourceDownloader.clearCache(name, language, remote_loc=None)
clearCache(name, language, remote_loc) ==
    \E o \in Outcomes :
        LET w == _ClearCache(<<name, language, Default(remote_loc, None)>>) IN
        /\ Complete("ResourceDownloader.clearCache", <<name, language, remote_loc>>,
                    ApplyCalls(w, o), ApplyResult(w, o))
        /\ UNCHANGED <<out, pipeline>>

\* ResourceDownloader.showPublicModels(): print("test"), then the wrapper
\* constructed with no arguments.
showPublicModels ==
    \E o \in Outcomes :
        LET w == _ShowPublicModels(<<>>) IN
        /\ out' = Append(out, Write(0, "test", 0, 0))
        /\ Complete("ResourceDownloader.showPublicModels", <<>>,
                    ApplyCalls(w, o), ApplyResult(w, o))
        /\ UNCHANGED pipeline

\* ResourceDownloader.showPublicPipelines()
showPublicPipelines ==
    \E o \in Outcomes :
        LET w == _ShowPublicPipelines(<<>>) IN
        /\ Complete("ResourceDownloader.showPublicPipelines", <<>>,
                    ApplyCalls(w, o), ApplyResult(w, o))
        /\ UNCHANGED <<out, pipeline>>

\* ResourceDownloader.showUnCategorizedResources()
showUnCategorizedResources ==
    \E o \in Outcomes :
        LET w == _ShowUnCategorizedResources(<<>>) IN
        /\ Complete("ResourceDownloader.showUnCategorizedResources", <<>>,
                    ApplyCalls(w, o), ApplyResult(w, o))
        /\ UNCHANGED <<out, pipeline>>

\* ---------------------------------------------------------- PretrainedPipeline
\* PretrainedPipeline(name, lang='en', remote_loc=None), line 78: the call of
\* ResourceDownloader().downloadPipeline(name, lang, remote_loc).
PretrainedPipeline_init(name, lang, remote_loc) ==
    Begin("PretrainedPipeline.__init__", <<name, lang, remote_loc>>,
          "downloadPipeline", <<name, Default(lang, "en"), Default(remote_loc, None)>>)

\* line 79: self.light_model = LightPipeline(self.model), which returns the
\* light pipeline's handle or raises; the object exists once it returned.
LightPipeline(o) ==
    /\ pc = "light_model"
    /\ calls' = Append(calls, Call("LightPipeline", dl.outcome.val,
                                   IF o.kind = "return" THEN "returned" ELSE "raised",
                                   o.val, threads[dl.tid].pc))
    /\ IF o.kind = "return"
       THEN /\ pipeline' = [exists |-> TRUE, model |-> dl.outcome.val, light_model |-> o.val]
            /\ result' = Returned(<<"PretrainedPipeline", dl.outcome.val[2], o.val>>)
       ELSE /\ result' = Raised(o.val)
            /\ UNCHANGED pipeline
    /\ pc' = "done"
    /\ UNCHANGED <<entry, dl, j_obj, stop, threads, out, ncalls, emb, rnn>>

\* Targets by exact type: the type's name, then the content (a DataFrame's
\* column names, a list's or tuple's elements, a string's text).
DataFrame == "DataFrame"
Targets == { <<DataFrame, "id", "body">>, <<"list", "a", "b">>, <<"str", "a">>,
             <<"tuple", "a", "b">>, <<"NoneType">>, <<"DataFrameSubclass", "id", "body">> }
Columns == {None, "", "body"}
\* Python's `not column`.
Falsy(column) == column \in {None, ""}
ColumnNeeded == "annotate() column arg needed when targeting a DataFrame"
BadTarget == "target must be either a spark DataFrame, a list of strings or a string"

\* DataFrame.withColumnRenamed(existing, new)
withColumnRenamed(df, existing, new) ==
    [i \in DOMAIN df |-> IF i > 1 /\ df[i] = existing THEN new ELSE df[i]]

DelegateStatus(o) == IF o.kind = "return" THEN "returned" ELSE "raised"
DelegateResult(o) == IF o.kind = "return" THEN Returned(o.val) ELSE Raised(o.val)

\* Variant: the column is not looked at.
Dispatch_nocolumncheck(method, target, column, o) ==
    IF target[1] = DataFrame
    THEN [calls |-> << Call("DataFrame.withColumnRenamed", <<target, column, "text">>,
                            "returned", withColumnRenamed(target, column, "text"), "none"),
                       Call("model.transform", withColumnRenamed(target, column, "text"),
                            DelegateStatus(o), o.val, "none") >>,
          result |-> DelegateResult(o)]
    ELSE IF target[1] = "list" \/ target[1] = "str"
         THEN [calls |-> << Call("light_model." \o method, target,
                                 DelegateStatus(o), o.val, "none") >>,
               result |-> DelegateResult(o)]
         ELSE [calls |-> <<>>, result |-> Raised(BadTarget)]

\* Variant: isinstance-like tests, which take a tuple for a sequence of strings.
Dispatch_isinstance(method, target, column, o) ==
    IF target[1] = DataFrame
    THEN IF Falsy(column)
         THEN [calls |-> <<>>, result |-> Raised(ColumnNeeded)]
         ELSE [calls |-> << Call("DataFrame.withColumnRenamed", <<target, column, "text">>,
                                 "returned", withColumnRenamed(target, column, "text"), "none"),
                            Call("model.transform", withColumnRenamed(target, column, "text"),
                                 DelegateStatus(o), o.val, "none") >>,
               result |-> DelegateResult(o)]
    ELSE IF target[1] \in {"list", "str", "tuple"}
         THEN [calls |-> << Call("light_model." \o method, target,
                                 DelegateStatus(o), o.val, "none") >>,
               result |-> DelegateResult(o)]
         ELSE [calls |-> <<>>, result |-> Raised(BadTarget)]

\* The body shared by annotate and fullAnnotate (lines 82-90 and 93-101):
\* `method` is the light pipeline's method the list/str branch calls, `o` what
\* the delegate does when it is called.
Dispatch(method, target, column, o) ==
    IF target[1] = DataFrame
    THEN IF Falsy(column)
         THEN [calls |-> <<>>, result |-> Raised(ColumnNeeded)]
         ELSE [calls |-> << Call("DataFrame.withColumnRenamed", <<target, column, "text">>,
                                 "returned", withColumnRenamed(target, column, "text"), "none"),
                            Call("model.transform", withColumnRenamed(target, column, "text"),
                                 DelegateStatus(o), o.val, "none") >>,
               result |-> DelegateResult(o)]
    ELSE IF target[1] = "list" \/ target[1] = "str"
         THEN [calls |-> << Call("light_model." \o method, target,
                                 DelegateStatus(o), o.val, "none") >>,
               result |-> DelegateResult(o)]
         ELSE [calls |-> <<>>, result |-> Raised(BadTarget)]

annotate_body(target, column, o) == Dispatch("annotate", target, column, o)
fullAnnotate_body(target, column, o) == Dispatch("fullAnnotate", target, column, o)

\* PretrainedPipeline.annotate(target, column=None)
annotate(target, column) ==
    \E o \in DelegateOutcomes :
        LET r == annotate_body(target, column, o) IN
        /\ pipeline.exists
        /\ Complete("PretrainedPipeline.annotate", <<target, column>>, r.calls, r.result)
        /\ UNCHANGED <<out, pipeline>>

\* PretrainedPipeline.fullAnnotate(target, column=None)
fullAnnotate(target, column) ==
    \E o \in DelegateOutcomes :
        LET r == fullAnnotate_body(target, column, o) IN
        /\ pipeline.exists
        /\ Complete("PretrainedPipeline.fullAnnotate", <<target, column>>, r.calls, r.result)
        /\ UNCHANGED <<out, pipeline>>

\* PretrainedPipeline.transform(data)
transform(data) ==
    \E o \in DelegateOutcomes :
        /\ pipeline.exists
        /\ Complete("PretrainedPipeline.transform", <<data>>,
                    << Call("model.transform", data, DelegateStatus(o), o.val, "none") >>,
                    DelegateResult(o))
        /\ UNCHANGED <<out, pipeline>>

\* ----------------------------------------------- bridge wrappers, constructed
\* Python objects that stand for a JVM object, and the attribute or method
\* that gives the JVM object: spark._jsparkSession, dataset._jdf,
\* pipelineModel._to_java().
SparkSessions == {"spark"}
Datasets == {"dataset"}
PipelineModels == {"pipelineModel"}
_jsparkSession(spark) == spark \o "._jsparkSession"
_jdf(dataset) == dataset \o "._jdf"
_to_java(pipelineModel) == pipelineModel \o "._to_java()"
Paths == {"/models/xlnet", "hdfs:///models/exported"}
JavaPaths == {"com.johnsnowlabs.nlp.pretrained.pipeline.en.BasicPipeline"}

\* The wrappers declared with (path, jspark): the remote name each passes on.
LoaderRemoteName ==
    ("_AlbertLoader" :> "com.johnsnowlabs.nlp.embeddings.AlbertEmbeddings.loadSavedModel")
    @@ ("_AlbertSequenceClassifierLoader" :> "com.johnsnowlabs.nlp.annotators.classifier.dl.AlbertForSequenceClassification.loadSavedModel")
    @@ ("_AlbertTokenClassifierLoader" :> "com.johnsnowlabs.nlp.annotators.classifier.dl.AlbertForTokenClassification.loadSavedModel")
    @@ ("_AlbertQuestionAnsweringLoader" :> "com.johnsnowlabs.nlp.annotators.classifier.dl.AlbertForQuestionAnswering.loadSavedModel")
    @@ ("_BertLoader" :> "com.johnsnowlabs.nlp.embeddings.BertEmbeddings.loadSavedModel")
    @@ ("_BertSentenceLoader" :> "com.johnsnowlabs.nlp.embeddings.BertSentenceEmbeddings.loadSavedModel")
    @@ ("_BertSequenceClassifierLoader" :> "com.johnsnowlabs.nlp.annotators.classifier.dl.BertForSequenceClassification.loadSavedModel")
    @@ ("_BertTokenClassifierLoader" :> "com.johnsnowlabs.nlp.annotators.classifier.dl.BertForTokenClassification.loadSavedModel")
    @@ ("_BertQuestionAnsweringLoader" :> "com.johnsnowlabs.nlp.annotators.classifier.dl.BertForQuestionAnswering.loadSavedModel")
    @@ ("_DeBERTaLoader" :> "com.johnsnowlabs.nlp.embeddings.DeBertaEmbeddings.loadSavedModel")
    @@ ("_DeBertaSequenceClassifierLoader" :> "com.johnsnowlabs.nlp.annotators.classifier.dl.DeBertaForSequenceClassification.loadSavedModel")
    @@ ("_DeBertTokenClassifierLoader" :> "com.johnsnowlabs.nlp.annotators.classifier.dl.DeBertaForTokenClassification.loadSavedModel")
    @@ ("_DeBertaQuestionAnsweringLoader" :> "com.johnsnowlabs.nlp.annotators.classifier.dl.DeBertaForQuestionAnswering.loadSavedModel")
    @@ ("_CamemBertLoader" :> "com.johnsnowlabs.nlp.embeddings.CamemBertEmbeddings.loadSavedModel")
    @@ ("_DistilBertLoader" :> "com.johnsnowlabs.nlp.embeddings.DistilBertEmbeddings.loadSavedModel")
    @@ ("_DistilBertSequenceClassifierLoader" :> "com.johnsnowlabs.nlp.annotators.classifier.dl.DistilBertForSequenceClassification.loadSavedModel")
    @@ ("_DistilBertTokenClassifierLoader" :> "com.johnsnowlabs.nlp.annotators.classifier.dl.DistilBertForTokenClassification.loadSavedModel")
    @@ ("_DistilBertQuestionAnsweringLoader" :> "com.johnsnowlabs.nlp.annotators.classifier.dl.DistilBertForQuestionAnswering.loadSavedModel")
    @@ ("_ElmoLoader" :> "com.johnsnowlabs.nlp.embeddings.ElmoEmbeddings.loadSavedModel")
    @@ ("_E5Loader" :> "com.johnsnowlabs.nlp.embeddings.E5Embeddings.loadSavedModel")
    @@ ("_BGELoader" :> "com.johnsnowlabs.nlp.embeddings.BGEEmbeddings.loadSavedModel")
    @@ ("_GPT2Loader" :> "com.johnsnowlabs.nlp.annotators.seq2seq.GPT2Transformer.loadSavedModel")
    @@ ("_LLAMA2Loader" :> "com.johnsnowlabs.nlp.annotators.seq2seq.LLAMA2Transformer.loadSavedModel")
    @@ ("_LongformerLoader" :> "com.johnsnowlabs.nlp.embeddings.LongformerEmbeddings.loadSavedModel")
    @@ ("_LongformerSequenceClassifierLoader" :> "com.johnsnowlabs.nlp.annotators.classifier.dl.LongformerForSequenceClassification.loadSavedModel")
    @@ ("_LongformerTokenClassifierLoader" :> "com.johnsnowlabs.nlp.annotators.classifier.dl.LongformerForTokenClassification.loadSavedModel")
    @@ ("_LongformerQuestionAnsweringLoader" :> "com.johnsnowlabs.nlp.annotators.classifier.dl.LongformerForQuestionAnswering.loadSavedModel")
    @@ ("_MarianLoader" :> "com.johnsnowlabs.nlp.annotators.seq2seq.MarianTransformer.loadSavedModel")
    @@ ("_MPNetLoader" :> "com.johnsnowlabs.nlp.embeddings.MPNetEmbeddings.loadSavedModel")
    @@ ("_RoBertaLoader" :> "com.johnsnowlabs.nlp.embeddings.RoBertaEmbeddings.loadSavedModel")
    @@ ("_RoBertaSentenceLoader" :> "com.johnsnowlabs.nlp.embeddings.RoBertaSentenceEmbeddings.loadSavedModel")
    @@ ("_RoBertaSequenceClassifierLoader" :> "com.johnsnowlabs.nlp.annotators.classifier.dl.RoBertaForSequenceClassification.loadSavedModel")
    @@ ("_RoBertaTokenClassifierLoader" :> "com.johnsnowlabs.nlp.annotators.classifier.dl.RoBertaForTokenClassification.loadSavedModel")
    @@ ("_RoBertaQuestionAnsweringLoader" :> "com.johnsnowlabs.nlp.annotators.classifier.dl.RoBertaForQuestionAnswering.loadSavedModel")
    @@ ("_T5Loader" :> "com.johnsnowlabs.nlp.annotators.seq2seq.T5Transformer.loadSavedModel")
    @@ ("_XlmRoBertaLoader" :> "com.johnsnowlabs.nlp.embeddings.XlmRoBertaEmbeddings.loadSavedModel")
    @@ ("_XlmRoBertaSentenceLoader" :> "com.johnsnowlabs.nlp.embeddings.XlmRoBertaSentenceEmbeddings.loadSavedModel")
    @@ ("_XlmRoBertaSequenceClassifierLoader" :> "com.johnsnowlabs.nlp.annotators.classifier.dl.XlmRoBertaForSequenceClassification.loadSavedModel")
    @@ ("_XlmRoBertaTokenClassifierLoader" :> "com.johnsnowlabs.nlp.annotators.classifier.dl.XlmRoBertaForTokenClassification.loadSavedModel")
    @@ ("_XlmRoBertaQuestionAnsweringLoader" :> "com.johnsnowlabs.nlp.annotators.classifier.dl.XlmRoBertaForQuestionAnswering.loadSavedModel")
    @@ ("_XlnetLoader" :> "com.johnsnowlabs.nlp.embeddings.XlnetEmbeddings.loadSavedModel")
    @@ ("_XlnetSequenceClassifierLoader" :> "com.johnsnowlabs.nlp.annotators.classifier.dl.XlnetForSequenceClassification.loadSavedModel")
    @@ ("_XlnetTokenClassifierLoader" :> "com.johnsnowlabs.nlp.annotators.classifier.dl.XlnetForTokenClassification.loadSavedModel")
    @@ ("_SpanBertCorefLoader" :> "com.johnsnowlabs.nlp.annotators.coref.SpanBertCorefModel.loadSavedModel")
    @@ ("_ViTForImageClassification" :> "com.johnsnowlabs.nlp.annotators.cv.ViTForImageClassification.loadSavedModel")
    @@ ("_VisionEncoderDecoderForImageCaptioning" :> "com.johnsnowlabs.nlp.annotators.cv.VisionEncoderDecoderForImageCaptioning.loadSavedModel")
    @@ ("_SwinForImageClassification" :> "com.johnsnowlabs.nlp.annotators.cv.SwinForImageClassification.loadSavedModel")
    @@ ("_ConvNextForImageClassification" :> "com.johnsnowlabs.nlp.annotators.cv.ConvNextForImageClassification.loadSavedModel")
    @@ ("_Wav2Vec2ForCTC" :> "com.johnsnowlabs.nlp.annotators.audio.Wav2Vec2ForCTC.loadSavedModel")
    @@ ("_HubertForCTC" :> "com.johnsnowlabs.nlp.annotators.audio.HubertForCTC.loadSavedModel")
    @@ ("_WhisperForCTC" :> "com.johnsnowlabs.nlp.annotators.audio.WhisperForCTC.loadSavedModel")
    @@ ("_CamemBertForTokenClassificationLoader" :> "com.johnsnowlabs.nlp.annotators.classifier.dl.CamemBertForTokenClassification.loadSavedModel")
    @@ ("_TapasForQuestionAnsweringLoader" :> "com.johnsnowlabs.nlp.annotators.classifier.dl.TapasForQuestionAnswering.loadSavedModel")
    @@ ("_CamemBertForSequenceClassificationLoader" :> "com.johnsnowlabs.nlp.annotators.classifier.dl.CamemBertForSequenceClassification.loadSavedModel")
    @@ ("_CamemBertQuestionAnsweringLoader" :> "com.johnsnowlabs.nlp.annotators.classifier.dl.CamemBertForQuestionAnswering.loadSavedModel")
    @@ ("_BertZeroShotClassifierLoader" :> "com.johnsnowlabs.nlp.annotators.classifier.dl.BertForZeroShotClassification.loadSavedModel")
    @@ ("_DistilBertForZeroShotClassification" :> "com.johnsnowlabs.nlp.annotators.classifier.dl.DistilBertForZeroShotClassification.loadSavedModel")
    @@ ("_RoBertaForZeroShotClassification" :> "com.johnsnowlabs.nlp.annotators.classifier.dl.RoBertaForZeroShotClassification.loadSavedModel")
    @@ ("_XlmRoBertaForZeroShotClassification" :> "com.johnsnowlabs.nlp.annotators.classifier.dl.XlmRoBertaForZeroShotClassification.loadSavedModel")
    @@ ("_InstructorLoader" :> "com.johnsnowlabs.nlp.embeddings.InstructorEmbeddings.loadSavedModel")
    @@ ("_BartForZeroShotClassification" :> "com.johnsnowlabs.nlp.annotators.classifier.dl.BartForZeroShotClassification.loadSavedModel")
    @@ ("_CLIPForZeroShotClassification" :> "com.johnsnowlabs.nlp.annotators.cv.CLIPForZeroShotClassification.loadSavedModel")
    @@ ("_DeBertaForZeroShotClassification" :> "com.johnsnowlabs.nlp.annotators.classifier.dl.DeBertaForZeroShotClassification.loadSavedModel")
    @@ ("_MPNetForSequenceClassificationLoader" :> "com.johnsnowlabs.nlp.annotators.classifier.dl.MPNetForSequenceClassification.loadSavedModel")
    @@ ("_MPNetForQuestionAnsweringLoader" :> "com.johnsnowlabs.nlp.annotators.classifier.dl.MPNetForQuestionAnswering.loadSavedModel")

\* Variant: the two arguments change places.
Loader_swapped(wname, args) ==
    IF Len(args) # 2 THEN ArityError
    ELSE Wrapped(LoaderRemoteName[wname], <<args[2], args[1]>>)

\* __init__(self, path, jspark) of such a wrapper.
Loader(wname, args) ==
    IF Len(args) # 2 THEN ArityError
    ELSE Wrapped(LoaderRemoteName[wname], <<args[1], args[2]>>)

_AlbertLoader(args) == Loader("_AlbertLoader", args)
_XlnetLoader(args) == Loader("_XlnetLoader", args)

_DownloadPredefinedPipeline(args) ==
    IF Len(args) # 1 THEN ArityError ELSE Wrapped(args[1], <<>>)

_EmbeddingsCoverageColumn(args) ==
    IF Len(args) # 3 THEN ArityError
    ELSE Wrapped("com.johnsnowlabs.nlp.embeddings.WordEmbeddingsModel.withCoverageColumn",
                 <<_jdf(args[1]), args[2], args[3]>>)

_LightPipeline(args) ==
    IF Len(args) # 2 THEN ArityError
    ELSE Wrapped("com.johnsnowlabs.nlp.LightPipeline", <<_to_java(args[1]), args[2]>>)

_StorageHelper(args) ==
    IF Len(args) # 5 THEN ArityError
    ELSE Wrapped("com.johnsnowlabs.storage.StorageHelper.load",
                 <<args[1], _jsparkSession(args[2]), args[3], args[4], args[5]>>)

\* Values handed to _CoNLLGeneratorExportFromTargetAndPipeline as pipeline and
\* as target, and the exact type of each: a PipelineModel, an instance of a
\* subclass of it, a JVM pipeline, paths (str) of a saved pipeline and of none;
\* a DataFrame, an instance of a subclass of it, the path of a text file.
ExportPipelines ==
    {"pipelineModel", "pipelineModelSubclass", "javaPipeline", "/pipelines/saved",
     "/pipelines/missing"}
ExportTargets == {"dataset", "datasetSubclass", "/data/corpus.txt"}
type(value) ==
    CASE value = "pipelineModel" -> "PipelineModel"
      [] value = "pipelineModelSubclass" -> "PipelineModelSubclass"
      [] value = "javaPipeline" -> "JavaObject"
      [] value = "dataset" -> "DataFrame"
      [] value = "datasetSubclass" -> "DataFrameSubclass"
      [] OTHER -> "str"
\* PipelineModel.load(path): the loaded model, or the JVM's error when nothing
\* is saved at the path.
PipelineModel_load(path) ==
    IF path = "/pipelines/saved"
    THEN [ok |-> TRUE, val |-> "PipelineModel.load(" \o path \o ")"]
    ELSE [ok |-> FALSE, val |-> "Py4JJavaError"]

\* Variant: isinstance-like tests, which take a subclass instance for its base.
_CoNLLGeneratorExportFromTargetAndPipeline_isinstance(args) ==
    IF Len(args) # 4 THEN ArityError
    ELSE LET loaded == PipelineModel_load(args[3])
             converted ==
                 IF type(args[3]) \in {"PipelineModel", "PipelineModelSubclass"}
                 THEN _to_java(args[3])
                 ELSE IF type(args[3]) = "str" THEN _to_java(loaded.val) ELSE args[3]
         IN  IF type(args[3]) = "str" /\ ~loaded.ok
             THEN [ok |-> FALSE, target |-> loaded.val, args |-> <<>>]
             ELSE IF type(args[2]) \in {"DataFrame", "DataFrameSubclass"}
                  THEN Wrapped("com.johnsnowlabs.util.CoNLLGenerator.exportConllFiles",
                               <<_jdf(args[2]), converted, args[4]>>)
                  ELSE Wrapped("com.johnsnowlabs.util.CoNLLGenerator.exportConllFiles",
                               <<_jsparkSession(args[1]), args[2], converted, args[4]>>)

\* __init__(self, spark, target, pipeline, output_path): an error of
\* PipelineModel.load leaves the constructor before anything is wrapped.
_CoNLLGeneratorExportFromTargetAndPipeline(args) ==
    IF Len(args) # 4 THEN ArityError
    ELSE LET loaded == PipelineModel_load(args[3])
             converted ==
                 IF type(args[3]) = "PipelineModel" THEN _to_java(args[3])
                 ELSE IF type(args[3]) = "str" THEN _to_java(loaded.val) ELSE args[3]
         IN  IF type(args[3]) = "str" /\ ~loaded.ok
             THEN [ok |-> FALSE, target |-> loaded.val, args |-> <<>>]
             ELSE IF type(args[2]) = "DataFrame"
                  THEN Wrapped("com.johnsnowlabs.util.CoNLLGenerator.exportConllFiles",
                               <<_jdf(args[2]), converted, args[4]>>)
                  ELSE Wrapped("com.johnsnowlabs.util.CoNLLGenerator.exportConllFiles",
                               <<_jsparkSession(args[1]), args[2], converted, args[4]>>)

\* The constructor of the wrapper class named wname.
WrapperOf(wname, args) ==
    CASE wname = "_DownloadModel" -> _DownloadModel(args)
      [] wname = "_DownloadPipeline" -> _DownloadPipeline(args)
      [] wname = "_ClearCache" -> _ClearCache(args)
      [] wname = "_ShowPublicModels" -> _ShowPublicModels(args)
      [] wname = "_ShowPublicPipelines" -> _ShowPublicPipelines(args)
      [] wname = "_ShowUnCategorizedResources" -> _ShowUnCategorizedResources(args)
      [] wname = "_DownloadPredefinedPipeline" -> _DownloadPredefinedPipeline(args)
      [] wname = "_EmbeddingsCoverageColumn" -> _EmbeddingsCoverageColumn(args)
      [] wname = "_LightPipeline" -> _LightPipeline(args)
      [] wname = "_StorageHelper" -> _StorageHelper(args)
      [] wname = "_CoNLLGeneratorExportFromTargetAndPipeline" ->
             _CoNLLGeneratorExportFromTargetAndPipeline(args)
      [] wname = "_AlbertLoader" -> _AlbertLoader(args)
      [] wname = "_XlnetLoader" -> _XlnetLoader(args)
      [] OTHER -> Loader(wname, args)

\* W(*args): the constructor forwards to the remote side, which answers with
\* a handle (kept as _java_obj) or raises.
Construct(wname, args) ==
    \E o \in Outcomes :
        LET w == WrapperOf(wname, args) IN
        /\ Complete(wname, args, ApplyCalls(w, o),
                    IF ~w.ok THEN Raised(w.target)
                    ELSE IF o.kind = "raise" THEN Raised(o.val)
                    ELSE Returned(<<wname, o.val>>))
        /\ UNCHANGED <<out, pipeline>>

\* XlnetEmbeddings.loadSavedModel(folder, spark_session), lines 216-219.
loadSavedModel(folder, spark_session) ==
    \E o \in Outcomes :
        LET w == _XlnetLoader(<<folder, _jsparkSession(spark_session)>>) IN
        /\ Idle
        /\ entry' = [op |-> "XlnetEmbeddings.loadSavedModel", args |-> <<folder, spark_session>>]
        /\ dl' = NoDownload
        /\ calls' = ApplyCalls(w, o)
        /\ IF o.kind = "return"
           THEN /\ emb' = XlnetEmbeddings_init("com.johnsnowlabs.nlp.embeddings.XlnetEmbeddings",
                                               o.val)
                /\ result' = Returned(<<XlnetEmbeddingsClass,
                                        "com.johnsnowlabs.nlp.embeddings.XlnetEmbeddings", o.val>>)
           ELSE /\ result' = Raised(o.val)
                /\ UNCHANGED emb
        /\ pc' = "done"
        /\ UNCHANGED <<j_obj, stop, threads, out, ncalls, pipeline, rnn>>

\* ------------------------------------------------------------ RNNLM trainer
\* Batches of the long training file.
MaxBatches == 320
\* A batch (or, for predict, a line) as the session evaluates it: the sum of
\* its loss and its number of valid words. Numbers are integers; a rate is
\* written <<numerator, denominator>> with a positive denominator, and a
\* perplexity exp(loss / words) is written <<loss, words>>.
Batch(loss, words) == [loss |-> loss, words |-> words]
\* The files a path can name: how many batches each has, and its i-th batch
\* in file order.
ShortFiles == {"empty", "one", "two"}
Size(path) ==
    CASE path = "empty" -> 0
      [] path = "one" -> 1
      [] path = "two" -> 2
      [] path = "three" -> 3
      [] path = "long" -> MaxBatches
Line(path, i) ==
    CASE path = "long" -> Batch(1, 1)
      [] i = 1 -> Batch(3, 2)
      [] i = 2 -> Batch(4, 1)
      [] i = 3 -> Batch(5, 3)
\* batch_train's (train_path, valid_path), predict's (input_file, raw_file).
Trainings == (ShortFiles \X ShortFiles) \cup {<<"long", "one">>}
Predictions == (ShortFiles \cup {"three"}) \X (ShortFiles \cup {"three"})
\* Constructor arguments.
NumEpochs == {-1, 0, 1, 2}
CheckPointSteps == {2, 100}
LearningRates == { << <<1, 1>>, <<1, 1000>> >>, << <<1, 1>>, <<19, 20>> >>,
                   << <<1, 2>>, <<1, 1000>> >>, << <<1, 1>>, <<97, 100>> >> }

Less(a, b) == a[1] * b[2] < b[1] * a[2]
RECURSIVE Pow(_, _)
Pow(b, k) == IF k = 0 THEN 1 ELSE b * Pow(b, k - 1)

\* tf.train.exponential_decay(initial_learning_rate, global_step, 150, 0.96,
\* staircase=True): rate * 0.96 ^ floor(global_step / 150).
decay_steps == 150
decay_rate == <<24, 25>>

\* Variant: no staircase, the rate decays with every 50 steps.
exponential_decay_steps50(rate, global_step) ==
    LET p == global_step \div 50 IN
    <<rate[1] * Pow(decay_rate[1], p), rate[2] * Pow(decay_rate[2], p)>>

exponential_decay(rate, global_step) ==
    LET p == global_step \div decay_steps IN
    <<rate[1] * Pow(decay_rate[1], p), rate[2] * Pow(decay_rate[2], p)>>

\* lines 36-39: the decayed rate, or final_learning_rate once it is below it.
learning_rate(initial_learning_rate, final_learning_rate, global_step) ==
    LET decayed == exponential_decay(initial_learning_rate, global_step) IN
    IF Less(decayed, final_learning_rate) THEN final_learning_rate ELSE decayed

NoFetch == [global_step |-> -1, lr_step |-> -1, learning_rate |-> <<0, 1>>]
NoRNNLM ==
    [pc |-> "none", op |-> "none", args |-> <<>>, result |-> NoResult,
     num_epochs |-> 0, check_point_step |-> 0,
     initial_learning_rate |-> <<0, 1>>, final_learning_rate |-> <<0, 1>>,
     global_step |-> 0, fetched |-> NoFetch,
     epoch |-> 0, patience |-> 0, best_score |-> <<"inf">>, saved |-> FALSE,
     pos |-> 0, loss |-> 0, valid_words |-> 0, steps |-> 0, passes |-> <<>>, out |-> <<>>]

\* RNNLM(...): the hyperparameters kept, global_step = tf.Variable(0).
RNNLM_init(num_epochs, check_point_step, rates) ==
    /\ rnn.pc = "none"
    /\ rnn' = [rnn EXCEPT !.pc = "ready", !.num_epochs = num_epochs,
                          !.check_point_step = check_point_step,
                          !.initial_learning_rate = rates[1],
                          !.final_learning_rate = rates[2]]
    /\ UNCHANGED <<pc, entry, dl, calls, result, j_obj, stop, threads, out, ncalls, pipeline, emb>>

\* A step of the trainer leaves the rest of the program alone.
OnlyRNNLM == UNCHANGED <<pc, entry, dl, calls, result, j_obj, stop, threads, out, ncalls, pipeline, emb>>

\* batch_train(sess, saver, train_path, valid_path), lines 165-167.
default_patience == 5
batch_train(train_path, valid_path) ==
    /\ rnn.pc = "ready"
    /\ rnn' = [rnn EXCEPT !.pc = "while", !.op = "batch_train",
                          !.args = <<train_path, valid_path>>,
                          !.best_score = <<"inf">>, !.patience = default_patience, !.epoch = 0]
    /\ OnlyRNNLM

\* Variant: the loop's body does nothing, so the test is made over and over.
batch_train_while_spins ==
    /\ rnn.pc = "while"
    /\ rnn' = IF rnn.epoch < rnn.num_epochs
              THEN rnn
              ELSE [rnn EXCEPT !.pc = "done", !.result = Returned(None)]
    /\ OnlyRNNLM

\* line 169: while epoch < self.num_epochs; falling out of it, the method returns.
batch_train_while ==
    /\ rnn.pc = "while"
    /\ rnn' = IF rnn.epoch < rnn.num_epochs
              THEN [rnn EXCEPT !.pc = "train_init"]
              ELSE [rnn EXCEPT !.pc = "done", !.result = Returned(None)]
    /\ OnlyRNNLM

\* lines 171-174: the iterator is set on the training file, 'epoch %d'.
batch_train_init ==
    /\ rnn.pc = "train_init"
    /\ rnn' = [rnn EXCEPT !.pc = "train", !.pos = 0, !.loss = 0, !.valid_words = 0,
                          !.passes = Append(@, "train"),
                          !.out = Append(@, <<"epoch", rnn.epoch>>)]
    /\ OnlyRNNLM

\* lines 178-193: one training step. The step fetches global_step and the
\* learning rate in the run that increments global_step, with nothing ordering
\* the reads and the increment: each sees the value before or after it.
batch_train_step ==
    /\ rnn.pc = "train"
    /\ rnn.pos < Size(rnn.args[1])
    /\ \E global_step \in {rnn.global_step, rnn.global_step + 1},
          lr_step \in {rnn.global_step, rnn.global_step + 1} :
          LET batch == Line(rnn.args[1], rnn.pos + 1)
              current_learning_rate ==
                  learning_rate(rnn.initial_learning_rate, rnn.final_learning_rate, lr_step)
              train_loss == rnn.loss + batch.loss
              train_valid_words == rnn.valid_words + batch.words
              report == global_step % rnn.check_point_step = 0
          IN  rnn' = [rnn EXCEPT
                  !.pos = @ + 1, !.steps = @ + 1,
                  !.global_step = @ + 1,
                  !.fetched = [global_step |-> global_step, lr_step |-> lr_step,
                               learning_rate |-> current_learning_rate],
                  !.loss = IF report THEN 0 ELSE train_loss,
                  !.valid_words = IF report THEN 0 ELSE train_valid_words,
                  !.out = IF report
                          THEN Append(SelectSeq(@, LAMBDA w : w[1] # "Training Step"),
                                      <<"Training Step", global_step, current_learning_rate,
                                        <<train_loss, train_valid_words>> >>)
                          ELSE @]
    /\ OnlyRNNLM

\* lines 195-201: OutOfRangeError ends the pass; the iterator is set on the
\* validation file.
batch_train_validation_init ==
    /\ rnn.pc = "train"
    /\ rnn.pos = Size(rnn.args[1])
    /\ rnn' = [rnn EXCEPT !.pc = "valid", !.pos = 0, !.loss = 0, !.valid_words = 0,
                          !.passes = Append(@, "valid")]
    /\ OnlyRNNLM

\* lines 204-209: one validation step.
batch_train_validation_step ==
    /\ rnn.pc = "valid"
    /\ rnn.pos < Size(rnn.args[2])
    /\ LET batch == Line(rnn.args[2], rnn.pos + 1) IN
       rnn' = [rnn EXCEPT !.pos = @ + 1, !.steps = @ + 1,
                          !.loss = @ + batch.loss, !.valid_words = @ + batch.words]
    /\ OnlyRNNLM

\* lines 211-225: OutOfRangeError ends the validation pass. dev_loss /=
\* dev_valid_words divides 0.0 by 0 when no batch was read, and raises; else
\* the perplexity is printed, compared with best_score, and epoch is set to
\* num_epochs (the `if patience == 0` before it is commented out).
batch_train_validation_end ==
    /\ rnn.pc = "valid"
    /\ rnn.pos = Size(rnn.args[2])
    /\ rnn' = IF rnn.valid_words = 0
              THEN [rnn EXCEPT !.pc = "done", !.result = Raised("ZeroDivisionError")]
              ELSE LET dev_ppl == <<rnn.loss, rnn.valid_words>>
                       better == Len(rnn.best_score) = 1 \/ Less(dev_ppl, rnn.best_score)
                   IN  [rnn EXCEPT
                           !.pc = "while",
                           !.out = Append(@, <<"Validation PPL", dev_ppl>>),
                           !.patience = IF better THEN default_patience ELSE @ - 1,
                           !.saved = IF better THEN TRUE ELSE @,
                           !.best_score = IF better THEN dev_ppl ELSE @,
                           !.epoch = rnn.num_epochs]
    /\ OnlyRNNLM

\* predict(sess, input_file, raw_file, verbose=False), lines 230-240: the
\* iterator is set on input_file, raw_file is read.
predict(input_file, raw_file, verbose) ==
    /\ rnn.pc = "ready"
    /\ rnn' = [rnn EXCEPT !.pc = "test", !.op = "predict",
                          !.args = <<input_file, raw_file, verbose>>,
                          !.pos = 0, !.loss = 0, !.valid_words = 0]
    /\ OnlyRNNLM

\* lines 242-259: one raw line, one evaluation step on the next element of
\* input_file; OutOfRangeError, which nothing catches, when there is none.
predict_line ==
    /\ rnn.pc = "test"
    /\ rnn.pos < Size(rnn.args[2])
    /\ rnn' = IF rnn.pos >= Size(rnn.args[1])
              THEN [rnn EXCEPT !.pc = "done", !.result = Raised("OutOfRangeError")]
              ELSE LET line == Line(rnn.args[1], rnn.pos + 1) IN
                   [rnn EXCEPT
                       !.pos = @ + 1, !.steps = @ + 1,
                       !.loss = @ + line.loss, !.valid_words = @ + line.words,
                       !.out = IF rnn.args[3]
                               THEN Append(@, <<"Test PPL", rnn.pos + 1,
                                               <<line.loss, line.words>> >>)
                               ELSE @]
    /\ OnlyRNNLM

\* lines 261-263: the global perplexity; 0.0 / 0 raises when raw_file is empty.
predict_global ==
    /\ rnn.pc = "test"
    /\ rnn.pos = Size(rnn.args[2])
    /\ rnn' = IF rnn.valid_words = 0
              THEN [rnn EXCEPT !.pc = "done", !.result = Raised("ZeroDivisionError")]
              ELSE [rnn EXCEPT !.pc = "done", !.result = Returned(None),
                               !.out = Append(@, <<"Global Test PPL",
                                               <<rnn.loss, rnn.valid_words>> >>)]
    /\ OnlyRNNLM

Init ==
    /\ pc = "idle"
    /\ entry = [op |-> "none", args |-> <<>>]
    /\ dl = NoDownload
    /\ calls = <<>>
    /\ result = NoResult
    /\ j_obj = None
    /\ stop = [t \in Tids |-> FALSE]
    /\ threads = [t \in Tids |-> NoThread]
    /\ out = <<>>
    /\ ncalls = 0
    /\ pipeline = [exists |-> FALSE, model |-> None, light_model |-> None]
    /\ emb = NoEmbeddings
    /\ rnn = NoRNNLM

\* The calling thread's steps inside a download call.
CallerStep ==
    \/ PrintStarted
    \/ StartThread
    \/ IssueRemote
    \/ Wrap
    \/ SetStop
    \/ Join
    \/ PrintDone
    \/ Return

\* The remote side ends the call in flight.
RemoteStep ==
    \/ \E h \in Handles : RemoteReturns(h)
    \/ \E e \in RemoteErrors : RemoteRaises(e)

\* The operations that download: each starts a progress thread.
InvokeDownload ==
    \/ \E r \in Readers, n \in Names, l \in Langs, loc \in RemoteLocs \cup {Omitted} :
           downloadModel(r, n, l, loc)
    \/ \E n \in Names, l \in Langs, loc \in RemoteLocs \cup {Omitted} :
           downloadPipeline(n, l, loc)
    \/ \E n \in Names \cup {Omitted}, l \in Langs \cup {Omitted},
          loc \in RemoteLocs \cup {Omitted} : pretrained(n, l, loc)
    \/ \E n \in Names, l \in Langs \cup {Omitted}, loc \in RemoteLocs \cup {Omitted} :
           PretrainedPipeline_init(n, l, loc)

\* The operations that run to completion on the calling thread.
InvokeOther ==
    \/ \E n \in Names, l \in Langs, loc \in RemoteLocs \cup {Omitted} : clearCache(n, l, loc)
    \/ showPublicModels
    \/ showPublicPipelines
    \/ showUnCategorizedResources
    \/ \E t \in Targets, c \in Columns : annotate(t, c)
    \/ \E t \in Targets, c \in Columns : fullAnnotate(t, c)
    \/ \E t \in Targets : transform(t)
    \/ NewXlnetEmbeddings
    \/ \E b \in ProtoBytes : setConfigProtoBytes(b)
    \/ \E v \in SentenceLengths : setMaxSentenceLength(v)

\* A program that only downloads.
DownloadNext ==
    \/ InvokeDownload
    \/ Continue
    \/ CallerStep
    \/ RemoteStep
    \/ \E o \in LightOutcomes : LightPipeline(o)
    \/ \E t \in Tids : printProgress(t)

Next ==
    \/ DownloadNext
    \/ InvokeOther

Spec == Init /\ [][Next]_vars

\* The download operations under a fair scheduler: every started thread runs
\* again and again, and the calling thread goes on whenever its next
\* statement can run. Nothing obliges the remote side to answer, nor the user
\* to make another call. The other operations are left out: the calling
\* thread runs them to completion between two download calls, and they read
\* and write neither a stop flag nor a thread.
FairSpec ==
    /\ Init /\ [][DownloadNext]_vars
    /\ WF_vars(CallerStep)
    /\ \A t \in Tids : WF_vars(printProgress(t))

\* printProgress on its own, under a fair scheduler: the thread runs again and
\* again; nothing obliges anyone to set its flag.
ProgressNext ==
    \/ printProgress_direct
    \/ StopRequested
    \/ \E t \in Tids : printProgress(t)

ProgressSpec ==
    /\ Init /\ [][ProgressNext]_vars
    /\ \A t \in Tids : WF_vars(printProgress(t))

\* The bridge wrappers constructed directly, and the loader of XlnetEmbeddings.
BridgeNext ==
    \/ \E w \in DOMAIN LoaderRemoteName, p \in Paths, s \in SparkSessions :
           Construct(w, <<p, _jsparkSession(s)>>)
    \/ \E r \in Readers, n \in Names, l \in Langs, loc \in RemoteLocs :
           Construct("_DownloadModel", <<ReaderName(r), n, l, loc, "PythonResourceDownloader">>)
    \/ \E n \in Names, l \in Langs, loc \in RemoteLocs \cup {None} :
           \/ Construct("_DownloadPipeline", <<n, l, loc>>)
           \/ Construct("_ClearCache", <<n, l, loc>>)
    \/ \E l \in Langs : Construct("_ShowPublicModels", <<"XlnetEmbeddings", l, "5.1.0">>)
    \/ \E l \in Langs : Construct("_ShowPublicPipelines", <<l, "5.1.0">>)
    \/ Construct("_ShowUnCategorizedResources", <<>>)
    \/ \E j \in JavaPaths : Construct("_DownloadPredefinedPipeline", <<j>>)
    \/ \E d \in Datasets : Construct("_EmbeddingsCoverageColumn", <<d, "embeddings", "coverage">>)
    \/ \E m \in PipelineModels, e \in {"True", "False"} : Construct("_LightPipeline", <<m, e>>)
    \/ \E p \in Paths, s \in SparkSessions :
           Construct("_StorageHelper", <<p, s, "EMBEDDINGS", "glove_100d", "False">>)
    \/ \E s \in SparkSessions, t \in ExportTargets, m \in ExportPipelines, p \in Paths :
           Construct("_CoNLLGeneratorExportFromTargetAndPipeline", <<s, t, m, p>>)
    \/ \E p \in Paths, s \in SparkSessions : loadSavedModel(p, s)
    \/ Continue

BridgeSpec == Init /\ [][BridgeNext]_vars

\* The trainer: an RNNLM is constructed, then batch_train or predict runs on
\* it, step after step (nothing else runs, nothing stops it). The long file is
\* trained on with the larger checkpoint step only.
TrainerStep ==
    \/ batch_train_while
    \/ batch_train_init
    \/ batch_train_step
    \/ batch_train_validation_init
    \/ batch_train_validation_step
    \/ batch_train_validation_end
    \/ predict_line
    \/ predict_global

TrainerNext ==
    \/ \E n \in NumEpochs, c \in CheckPointSteps, r \in LearningRates : RNNLM_init(n, c, r)
    \/ \E t \in Trainings :
           /\ t[1] = "long" => rnn.check_point_step = 100
           /\ batch_train(t[1], t[2])
    \/ \E f \in Predictions, verbose \in BOOLEAN : predict(f[1], f[2], verbose)
    \/ TrainerStep

TrainerSpec == Init /\ [][TrainerNext]_vars /\ WF_vars(TrainerStep)

\* ------------------------------------------------------------------ claims
\* The remote call of the invocation's download operation, if one was issued.
DownloadCalls ==
    IF dl.op = "none" THEN {} ELSE {i \in DOMAIN calls : calls[i].target # "LightPipeline"}
DownloadEnded == dl.op # "none" /\ dl.outcome.kind # "none"

\* C1: every downloadModel / downloadPipeline call starts exactly one progress
\* thread, starts it before the remote call is issued, and issues the remote
\* call on the calling thread while that thread is running.
C1_ThreadAroundRemoteCall ==
    dl.op # "none" =>
        /\ dl.started <= 1
        /\ pc \notin {"print_started", "start_thread"} => dl.started = 1
        /\ \A i \in DownloadCalls : calls[i].thr \in {"write", "sleep", "poll"}
        /\ DownloadEnded => Cardinality(DownloadCalls) = 1

\* The remote call of thread t's download operation has returned; the
\* operation has returned the wrapped handle, its thread has ended.
RemoteHasReturned(t) == dl.tid = t /\ pc \in {"wrap", "set_stop"}
DownloadReturned(t) ==
    /\ dl.tid = t
    /\ stop[t]
    /\ threads[t].pc = "exited"
    /\ dl.outcome.kind = "return"
    /\ dl.outcome.val[Len(dl.outcome.val)] = calls[1].val
    /\ calls[1].status = "returned"
\* C2: once the remote call of a download operation has returned, the stop
\* flag gets set, the thread that polls it goes to its final frame and ends,
\* the join returns, and the operation returns the wrapped handle.
C2_ReturnsAfterRemoteReturn ==
    /\ \A t \in Tids : RemoteHasReturned(t) ~> DownloadReturned(t)
    /\ [][\A t \in Tids :
            (threads[t].pc = "poll" /\ stop[t] /\ threads'[t] # threads[t])
                => threads'[t].pc = "final"]_vars
C2_Witness ==
    /\ pc = "done"
    /\ entry.op = "ResourceDownloader.downloadPipeline"
    /\ result = Returned(<<"JavaModel", "h2">>)
    /\ threads[dl.tid].pc = "exited"

\* C3: downloadModel makes exactly one remote downloadModel invocation, with
\* the reader's name, the model name, the language and remote_loc, and
\* returns reader(classname=None, java_model=h) for the handle h it returned.
C3_DownloadModelDelegates ==
    (dl.op = "downloadModel" /\ DownloadEnded) =>
        /\ Len(calls) = 1
        /\ calls[1].args = <<"XlnetEmbeddings", dl.args[2], dl.args[3], dl.args[4]>>
        /\ calls[1].status = "returned" =>
               /\ dl.outcome.kind = "return"
               /\ dl.outcome.val = <<dl.args[1], None, calls[1].val>>

\* C4: clearCache, showPublicModels, showPublicPipelines and
\* showUnCategorizedResources each end in exactly one remote invocation of the
\* PythonResourceDownloader method of the same name.
RemoteMethod(op) ==
    CASE op = "ResourceDownloader.clearCache" -> "clearCache"
      [] op = "ResourceDownloader.showPublicModels" -> "showPublicModels"
      [] op = "ResourceDownloader.showPublicPipelines" -> "showPublicPipelines"
      [] op = "ResourceDownloader.showUnCategorizedResources" -> "showUnCategorizedResources"
C4_ShowAndClearDelegate ==
    (pc = "done" /\ entry.op \in {"ResourceDownloader.clearCache",
                                  "ResourceDownloader.showPublicModels",
                                  "ResourceDownloader.showPublicPipelines",
                                  "ResourceDownloader.showUnCategorizedResources"}) =>
        /\ Len(calls) = 1
        /\ calls[1].target = "com.johnsnowlabs.nlp.pretrained.PythonResourceDownloader."
                              \o RemoteMethod(entry.op)

\* A finished call of annotate or fullAnnotate, its target and its column.
AnnotateEnded ==
    pc = "done" /\ entry.op \in {"PretrainedPipeline.annotate", "PretrainedPipeline.fullAnnotate"}
TargetType == entry.args[1][1]
MissingColumn == entry.args[2] = None \/ entry.args[2] = ""

\* C5: annotate and fullAnnotate on a DataFrame with a missing column (None or
\* another falsy value) raise before delegating: no model or light_model
\* method is called and the target is not renamed.
C5_MissingColumnRejected ==
    (AnnotateEnded /\ TargetType = "DataFrame" /\ MissingColumn) =>
        /\ result.kind = "raise"
        /\ calls = <<>>
C5_Witness ==
    /\ AnnotateEnded
    /\ entry.op = "PretrainedPipeline.fullAnnotate"
    /\ TargetType = "DataFrame"
    /\ entry.args[2] = ""
    /\ result.kind = "raise"
    /\ result.val = "annotate() column arg needed when targeting a DataFrame"

\* The three outcomes of the dispatch.
ToTransform ==
    /\ Len(calls) = 2
    /\ calls[1].target = "DataFrame.withColumnRenamed"
    /\ calls[1].args = <<entry.args[1], entry.args[2], "text">>
    /\ calls[2].target = "model.transform"
    /\ calls[2].args = [i \in DOMAIN entry.args[1] |->
                           IF i > 1 /\ entry.args[1][i] = entry.args[2]
                           THEN "text" ELSE entry.args[1][i]]
ToLightModel ==
    /\ Len(calls) = 1
    /\ calls[1].target = (IF entry.op = "PretrainedPipeline.annotate"
                          THEN "light_model.annotate" ELSE "light_model.fullAnnotate")
    /\ calls[1].args = entry.args[1]
TargetRejected ==
    /\ calls = <<>>
    /\ result.kind = "raise"
    /\ result.val = "target must be either a spark DataFrame, a list of strings or a string"
ExactlyOne(a, b, c) == (a /\ ~b /\ ~c) \/ (~a /\ b /\ ~c) \/ (~a /\ ~b /\ c)
DispatchByType ==
    /\ (TargetType = "DataFrame" /\ ~MissingColumn) => ToTransform
    /\ TargetType \in {"list", "str"} => ToLightModel
    /\ TargetType \notin {"DataFrame", "list", "str"} => TargetRejected

\* C6 as stated: the dispatch on the exact type, and exactly one of the three
\* outcomes in every call.
C6_Original ==
    AnnotateEnded => DispatchByType /\ ExactlyOne(ToTransform, ToLightModel, TargetRejected)

\* C6, amended: the dispatch on the exact type; exactly one of the three
\* outcomes in every call but that of a DataFrame with a missing column, which
\* has none of them: it raises the column exception and calls no delegate.
C6_DispatchOnExactType ==
    AnnotateEnded =>
        /\ DispatchByType
        /\ IF TargetType = "DataFrame" /\ MissingColumn
           THEN /\ ~ToTransform /\ ~ToLightModel /\ ~TargetRejected
                /\ calls = <<>>
                /\ result.kind = "raise"
           ELSE ExactlyOne(ToTransform, ToLightModel, TargetRejected)
C6_Witness ==
    /\ AnnotateEnded
    /\ entry.op = "PretrainedPipeline.annotate"
    /\ entry.args = << <<"DataFrame", "id", "body">>, "body" >>
    /\ calls[2].args = <<"DataFrame", "id", "text">>
    /\ result.kind = "return"

\* C7: no retry: within one invocation no remote or delegate call is made
\* twice, and no call follows one that raised.
C7_NoRetry ==
    /\ \A i, j \in DOMAIN calls : i # j => calls[i].target # calls[j].target
    /\ \A i \in DOMAIN calls : calls[i].status = "raised" => i = Len(calls)
    /\ Cardinality(DownloadCalls) <= 1
C7_Witness ==
    /\ pc = "done"
    /\ entry.op = "PretrainedPipeline.__init__"
    /\ Len(calls) = 1
    /\ calls[1].status = "raised"

\* C8: when the remote call of a download operation raises, the caller gets
\* that very error: the operation has ended, "Download done" is not printed
\* and no model is returned.
C8_RemoteErrorPropagates ==
    \A i \in DownloadCalls :
        (dl.op # "none" /\ calls[i].status = "raised") =>
            /\ pc = "done"
            /\ dl.outcome.kind = "raise" /\ dl.outcome.val = calls[i].val
            /\ result.kind = "raise" /\ result.val = calls[i].val
            /\ \A k \in DOMAIN out : out[k].kind # "done"
C8_Witness ==
    /\ pc = "done"
    /\ entry.op = "ResourceDownloader.downloadPipeline"
    /\ Len(calls) = 1
    /\ calls[1].status = "raised"
    /\ result.kind = "raise"
    /\ result.val = "Py4JNetworkError"

\* C9: a constructed XlnetEmbeddings has the defaults batchSize 8, dimension
\* 768, maxSentenceLength 128, caseSensitive True, and whatever setters were
\* called, every parameter no setter was called for still has its default.
C9_DefaultsKept ==
    emb.exists =>
        /\ emb.defaults["batchSize"] = 8
        /\ emb.defaults["dimension"] = 768
        /\ emb.defaults["maxSentenceLength"] = 128
        /\ emb.defaults["caseSensitive"] = TRUE
        /\ \A p \in {"batchSize", "dimension", "maxSentenceLength", "caseSensitive"} \ emb.targets :
               getOrDefault(emb, p) = emb.defaults[p]
C9_Witness ==
    /\ emb.exists
    /\ emb.targets = {"configProtoBytes"}
    /\ "configProtoBytes" \in DOMAIN emb.params
    /\ getOrDefault(emb, "maxSentenceLength") = 128
    /\ entry.op = "XlnetEmbeddings.setConfigProtoBytes"

ThreadWrites(t, kind) == SelectSeq(out, LAMBDA w : w.src = t /\ w.kind = kind)

\* C15: no progress thread outlives the download call that started it: once
\* the call has returned or raised to its caller, its thread has ended.
C15_NoThreadOutlivesCall ==
    DownloadEnded => threads[dl.tid].pc = "exited"

\* C16: printProgress polls only after a sleep, never before its first frame:
\* a started thread always writes a first frame; before its k-th poll it has
\* written k frames; when the k-th poll is the first to read true it has
\* written exactly k frames, then writes one final frame and one newline and
\* ends, with nothing after the newline; a poll that reads false never ends it.
C16_PollsAfterEachSleep ==
    /\ [](\A t \in Tids : dl.tid = t =>
            LET th == threads[t]
                frames == Len(ThreadWrites(t, "frame"))
                finals == Len(ThreadWrites(t, "final"))
                newlines == Len(ThreadWrites(t, "newline"))
            IN  /\ th.pc = "unstarted" => frames + finals + newlines = 0
                /\ th.pc = "write" => frames = th.polls /\ finals + newlines = 0
                /\ th.pc \in {"sleep", "poll"} => frames = th.polls + 1 /\ finals + newlines = 0
                /\ th.pc = "final" => frames = th.polls /\ th.polls >= 1 /\ finals + newlines = 0
                /\ th.pc = "newline" =>
                       /\ frames = th.polls /\ finals = 1 /\ newlines = 0
                       /\ out[Len(out)].kind = "final"
                /\ th.pc = "exited" =>
                       /\ frames = th.polls /\ th.polls >= 1 /\ finals = 1 /\ newlines = 1
                       /\ out[Len(out)].kind = "newline"
                       /\ out[Len(out) - 1].kind = "final"
                       /\ out[Len(out) - 2].kind = "frame")
    /\ [][\A t \in Tids :
            (threads[t].pc = "poll" /\ ~stop[t]) => threads'[t].pc \in {"poll", "write"}]_vars
    /\ \A t \in Tids :
           (threads[t].pc = "write" /\ threads[t].polls = 0)
               ~> (dl.tid = t /\ Len(ThreadWrites(t, "frame")) >= 1)
C16_Witness ==
    /\ pc = "direct"
    /\ threads[dl.tid].pc = "exited"
    /\ threads[dl.tid].polls = 3
    /\ Len(ThreadWrites(dl.tid, "frame")) = 3
    /\ out[Len(out)].kind = "newline"

\* C17: the stop flag of a download call is false when its thread starts and
\* changes only once, from false to true, by the calling thread's assignment
\* that follows the returned remote call (and the wrapping); no step of a
\* progress thread changes it.
C17_StopFlagMonotoneSingleWriter ==
    [][\A t \in Tids :
         /\ stop'[t] # stop[t] =>
                /\ ~stop[t] /\ stop'[t]
                /\ dl.tid = t
                /\ pc = "set_stop" /\ pc' = "join"
                /\ Len(calls) = 1 /\ calls[1].status = "returned"
                /\ threads' = threads
         /\ (threads[t].pc = "unstarted" /\ threads'[t].pc # "unstarted") =>
                ~stop[t] /\ ~stop'[t]]_vars
C17_Witness ==
    /\ dl.op = "downloadPipeline"
    /\ pc = "join"
    /\ stop[dl.tid]
    /\ threads[dl.tid].pc = "poll"
    /\ calls[1].status = "returned"

\* C18: in a download call's output the "download started" line comes before
\* every progress frame, and "Download done" comes after the thread's final
\* frame and newline, with no output of that thread after it.
C18_OutputOrder ==
    dl.op # "none" =>
        /\ \A i \in DOMAIN out :
               out[i].src = dl.tid => (i > 1 /\ out[1].src = 0 /\ out[1].kind = "started")
        /\ \A i \in DOMAIN out :
               out[i].kind = "done" =>
                   /\ i = Len(out)
                   /\ i >= 5
                   /\ out[i - 1].src = dl.tid /\ out[i - 1].kind = "newline"
                   /\ out[i - 2].src = dl.tid /\ out[i - 2].kind = "final"
                   /\ threads[dl.tid].pc = "exited"
C18_Witness ==
    /\ pc = "done"
    /\ result.kind = "return"
    /\ dl.op = "downloadPipeline"
    /\ Len(out) = 6
    /\ out[1].kind = "started"
    /\ out[6].kind = "done"

\* C19: the i-th animated frame has i filled blocks and max(2, 8 - i) dots,
\* never fewer than 2, so its width is 8 up to the 6th frame and i + 2 from the
\* 7th on; the final frame, drawn after the counters moved on once more, has
\* the width this rule gives for i + 1, every cell filled.
C19_BarShape ==
    \A t \in Tids : dl.tid = t =>
        LET fs == ThreadWrites(t, "frame")
            fin == ThreadWrites(t, "final")
        IN  /\ \A i \in DOMAIN fs :
                   /\ fs[i].filled = i
                   /\ fs[i].dots = (IF 8 - i >= 2 THEN 8 - i ELSE 2)
                   /\ fs[i].dots >= 2
                   /\ fs[i].filled + fs[i].dots = (IF i <= 6 THEN 8 ELSE i + 2)
            /\ \A j \in DOMAIN fin :
                   /\ fin[j].dots = 0
                   /\ fin[j].filled = (IF Len(fs) + 1 <= 6 THEN 8 ELSE Len(fs) + 3)
C19_Witness ==
    /\ pc = "direct"
    /\ Len(ThreadWrites(dl.tid, "frame")) = 8
    /\ ThreadWrites(dl.tid, "frame")[8].filled = 8
    /\ ThreadWrites(dl.tid, "frame")[8].dots = 2
    /\ Len(ThreadWrites(dl.tid, "final")) = 1
    /\ ThreadWrites(dl.tid, "final")[1].filled = 11

\* The string s ends with t.
EndsWith(s, t) == Len(s) >= Len(t) /\ SubSeq(s, Len(s) - Len(t) + 1, Len(s)) = t
LoaderWrappers == DOMAIN LoaderRemoteName
ConvertingWrappers ==
    {"_DownloadModel", "_DownloadPredefinedPipeline", "_EmbeddingsCoverageColumn",
     "_LightPipeline", "_StorageHelper"}
PlainWrappers ==
    {"_DownloadPipeline", "_ClearCache", "_ShowPublicModels", "_ShowPublicPipelines",
     "_ShowUnCategorizedResources"}
\* A wrapper among `names` was constructed directly and its remote call went out.
WrapperConstructed(names) == pc = "done" /\ entry.op \in names /\ Len(calls) = 1
ForwardsUnmodified ==
    /\ calls[1].args = entry.args
    /\ \A i \in DOMAIN entry.args : calls[1].target # entry.args[i]
\* Every loader wrapper declared with (path, jspark).
LoadersForward ==
    WrapperConstructed(LoaderWrappers) =>
        /\ EndsWith(calls[1].target, ".loadSavedModel")
        /\ Len(entry.args) = 2
        /\ ForwardsUnmodified
\* XlnetEmbeddings.loadSavedModel(folder, spark_session).
LoadSavedModelForwards ==
    (pc = "done" /\ entry.op = "XlnetEmbeddings.loadSavedModel") =>
        /\ Len(calls) = 1
        /\ calls[1].target = "com.johnsnowlabs.nlp.embeddings.XlnetEmbeddings.loadSavedModel"
        /\ calls[1].args = <<entry.args[1], entry.args[2] \o "._jsparkSession">>
        /\ calls[1].status = "returned" =>
               /\ result.kind = "return"
               /\ result.val[1] = XlnetEmbeddingsClass
               /\ result.val[3] = calls[1].val
               /\ emb.exists /\ emb.java_model = calls[1].val
        /\ calls[1].status = "raised" => result = Raised(calls[1].val)

BatchTrainEnded == rnn.op = "batch_train" /\ rnn.pc = "done"
PredictEnded == rnn.op = "predict" /\ rnn.pc = "done"
Eq(a, b) == a[1] * b[2] = b[1] * a[2]

\* C12: batch_train with num_epochs = N >= 0 on non-empty training and
\* validation files makes exactly N training passes, each followed by exactly
\* one validation pass, and then returns.
C12_EpochLoop ==
    (BatchTrainEnded /\ rnn.num_epochs >= 0 /\ Size(rnn.args[1]) > 0 /\ Size(rnn.args[2]) > 0) =>
        /\ rnn.result.kind = "return"
        /\ Len(rnn.passes) = 2 * rnn.num_epochs
        /\ \A i \in DOMAIN rnn.passes :
               rnn.passes[i] = (IF i % 2 = 1 THEN "train" ELSE "valid")

\* C13: the learning rate read at global step s is
\* initial_learning_rate * 0.96^floor(s/150) while that is at least
\* final_learning_rate, and final_learning_rate otherwise; so it is never below
\* final_learning_rate, not above its value at step s - 1, and equal to it
\* when s - 1 is in the same block of 150 steps.
C13_LearningRateFloor ==
    rnn.fetched.lr_step >= 0 =>
        LET s == rnn.fetched.lr_step
            lr == rnn.fetched.learning_rate
            initial == rnn.initial_learning_rate
            final == rnn.final_learning_rate
            decayed == <<initial[1] * Pow(24, s \div 150), initial[2] * Pow(25, s \div 150)>>
        IN  /\ IF Less(decayed, final) THEN Eq(lr, final) ELSE Eq(lr, decayed)
            /\ ~Less(lr, final)
            /\ s >= 1 =>
                   LET before == learning_rate(initial, final, s - 1) IN
                   /\ ~Less(before, lr)
                   /\ (s \div 150 = (s - 1) \div 150) => Eq(before, lr)
C13_Witness ==
    /\ rnn.op = "batch_train"
    /\ rnn.fetched.lr_step = 300
    /\ rnn.initial_learning_rate = <<1, 1>>
    /\ rnn.final_learning_rate = <<19, 20>>
    /\ rnn.fetched.learning_rate = <<19, 20>>

\* C14: predict makes exactly one evaluation step per line of raw_file, in
\* file order; verbose, it prints one perplexity line per raw line and then one
\* global line made from the summed loss and the summed valid words of all
\* lines; not verbose, it prints the global line only.
C14_PredictPerLine ==
    PredictEnded =>
        LET n == Size(rnn.args[2])
            verbose == rnn.args[3]
            lines == IF verbose THEN n ELSE 0
        IN  /\ rnn.steps = n
            /\ rnn.result.kind = "return"
            /\ Len(rnn.out) = lines + 1
            /\ \A i \in 1..lines :
                   /\ rnn.out[i][1] = "Test PPL"
                   /\ rnn.out[i][2] = i
                   /\ rnn.out[i][3] = <<Line(rnn.args[1], i).loss, Line(rnn.args[1], i).words>>
            /\ rnn.out[lines + 1][1] = "Global Test PPL"
            /\ rnn.out[lines + 1][2] = <<rnn.loss, rnn.valid_words>>

\* C20: batch_train ends, returning or raising, for every training file,
\* every validation file (the empty ones too) and every num_epochs: a pass is
\* left only when its iterator is exhausted, and a call that returns has its
\* epoch counter at num_epochs or beyond.
C20_BatchTrainTerminates ==
    /\ (rnn.op = "batch_train") ~> (BatchTrainEnded /\ rnn.result.kind \in {"return", "raise"})
    /\ [][/\ (rnn.pc = "train" /\ rnn'.pc # "train") => rnn.pos = Size(rnn.args[1])
          /\ (rnn.pc = "valid" /\ rnn'.pc # "valid") => rnn.pos = Size(rnn.args[2])]_vars
    /\ []((BatchTrainEnded /\ rnn.result.kind = "return") => rnn.epoch >= rnn.num_epochs)
C20_Witness ==
    /\ BatchTrainEnded
    /\ rnn.num_epochs = 2
    /\ rnn.args = <<"empty", "two">>
    /\ rnn.result.kind = "return"
    /\ rnn.passes = <<"train", "valid">>

\* The constructor of _CoNLLGeneratorExportFromTargetAndPipeline was called
\* with (spark, target, pipeline, output_path) and has ended.
ExportCalled ==
    /\ pc = "done"
    /\ entry.op = "_CoNLLGeneratorExportFromTargetAndPipeline"
    /\ Len(entry.args) = 4
\* The pipeline argument the claim expects to be passed on.
ExportedPipeline ==
    IF type(entry.args[3]) = "PipelineModel" THEN entry.args[3] \o "._to_java()"
    ELSE IF type(entry.args[3]) = "str"
         THEN "PipelineModel.load(" \o entry.args[3] \o ")._to_java()"
         ELSE entry.args[3]
\* One construction, of the remote name exportConllFiles, with three arguments
\* for a DataFrame target and four for any other.
ExportsByExactType ==
    /\ Len(calls) = 1
    /\ calls[1].target = "com.johnsnowlabs.util.CoNLLGenerator.exportConllFiles"
    /\ calls[1].args =
           IF type(entry.args[2]) = "DataFrame"
           THEN <<entry.args[2] \o "._jdf", ExportedPipeline, entry.args[4]>>
           ELSE <<entry.args[1] \o "._jsparkSession", entry.args[2], ExportedPipeline,
                  entry.args[4]>>
\* The pipeline is a str at which PipelineModel.load finds nothing.
ExportLoadFails == type(entry.args[3]) = "str" /\ ~PipelineModel_load(entry.args[3]).ok

\* C21 as stated: every call of _CoNLLGeneratorExportFromTargetAndPipeline
\* makes exactly one remote wrapper construction, of the name
\* "com.johnsnowlabs.util.CoNLLGenerator.exportConllFiles", with the pipeline
\* converted by exact type (PipelineModel: _to_java; str: loaded, then
\* _to_java; any other: unchanged) and with (target._jdf, pipeline,
\* output_path) for a DataFrame target, (spark._jsparkSession, target,
\* pipeline, output_path) for any other.
C21_Original == ExportCalled => ExportsByExactType

\* C21, amended: as stated for every call whose pipeline conversion returns; a
\* call whose str pipeline cannot be loaded ends with the error of
\* PipelineModel.load and makes no remote wrapper construction.
C21_ExportDispatch ==
    ExportCalled =>
        IF ExportLoadFails
        THEN calls = <<>> /\ result = Raised(PipelineModel_load(entry.args[3]).val)
        ELSE ExportsByExactType
\* A call with a DataFrame target and a str pipeline that loads has ended with
\* its one construction, of three arguments.
C21_Witness ==
    /\ ExportCalled
    /\ entry.args[2] = "dataset" /\ entry.args[3] = "/pipelines/saved"
    /\ Len(calls) = 1 /\ Len(calls[1].args) = 3

====
